---- MODULE Spec2Model ----
(***************************************************************************)
(* Model of the notes-rag indexing and retrieval pipeline                  *)
(* (src/updated_math_rag.py, with the delimiter repair of                  *)
(* src/math_chat.py beside it).                                            *)
(*                                                                         *)
(* A text is a sequence of one-character strings.  A PDF is a sequence of  *)
(* pages; a page has a raw text and may be damaged (text extraction and    *)
(* rasterisation raise on it).  The notes folder maps a file name to the   *)
(* content it currently holds.                                             *)
(***************************************************************************)
EXTENDS Integers, Sequences, FiniteSets, TLC

VARIABLES
    folder_exists,   \* os.path.exists(self.folder_path)
    folder,          \* file name -> "absent" | "unreadable" | content id
    collection,      \* self.collection: the set of stored page units
    last,            \* what the last operation did and returned
    fmt,             \* a delimiter repair: the function, its argument, its result
    threads,         \* per browser session: where its script run stands in
                     \* load_and_index_pdfs, and the locals of that call
    observed         \* when the last operation was a query: the documents its
                     \* similarity search found with their old units deleted
                     \* and their new ones not yet added

vars == <<folder_exists, folder, collection, last, fmt, threads, observed>>

(***************************************************************************)
(* Texts                                                                   *)
(***************************************************************************)
Rep(c, n) == [i \in 1..n |-> c]

\* the characters str.split() treats as separators
Whitespace == {" ", "\n", "\t"}

\* text.split(): the maximal runs of non-whitespace characters, in order
RECURSIVE SplitFrom(_, _, _, _)
SplitFrom(text, i, word, words) ==
    IF i > Len(text)
    THEN IF word = <<>> THEN words ELSE Append(words, word)
    ELSE IF text[i] \in Whitespace
         THEN SplitFrom(text, i + 1, <<>>,
                        IF word = <<>> THEN words ELSE Append(words, word))
         ELSE SplitFrom(text, i + 1, Append(word, text[i]), words)

split(text) == SplitFrom(text, 1, <<>>, <<>>)

\* sep.join(words)
RECURSIVE join(_, _)
join(sep, words) ==
    IF words = <<>> THEN <<>>
    ELSE IF Len(words) = 1 THEN words[1]
    ELSE words[1] \o sep \o join(sep, Tail(words))

\* the text as extracted, not collapsed
UncollapsedText(text) == text

\* " ".join(text.split())
clean_text(text) == join(<<" ">>, split(text))

(***************************************************************************)
(* Documents the folder may hold                                           *)
(***************************************************************************)
Pg(text) == [text |-> text, damaged |-> FALSE]

PgEmpty == Pg(<<>>)
PgBlank == Pg(<<" ", " ", "\n", "\t">>)
Pg19    == Pg(Rep("x", 19))
Pg20    == Pg(Rep("x", 20))
\* 21 raw characters, 19 after collapsing
PgSp19  == Pg(Rep("x", 9) \o <<" ", " ", "\n">> \o Rep("y", 9))
\* 25 raw characters, 20 after collapsing
PgSp20  == Pg(<<" ", "\n">> \o Rep("x", 10) \o <<" ", "\t">> \o Rep("y", 9) \o <<"\n", " ">>)
PgBad   == [text |-> Rep("x", 30), damaged |-> TRUE]

ContentIds == {"A", "B", "C", "D", "E", "F", "G"}

PagesOf(c) ==
    CASE c = "A" -> <<Pg19, PgSp20, PgBlank, PgSp19, Pg20, PgEmpty>>
      [] c = "B" -> <<Pg20, PgSp20>>
      [] c = "C" -> <<Pg20, PgBad>>
      [] c = "D" -> <<PgSp19>>
      \* 11 pages; pages 0, 5 and 10 reach 20 characters
      [] c = "E" -> <<Pg20, Pg19, PgBlank, PgEmpty, Pg19, PgSp20, Pg19, PgEmpty, PgBlank,
                      Pg19, Pg20>>
      \* one page unit each, on different pages
      [] c = "F" -> <<Pg20>>
      [] c = "G" -> <<Pg19, PgSp20>>

Files == {"a.pdf", "b.pdf"}

\* what a file of the folder can be under Spec: the short documents
FileStates == {"absent", "unreadable", "A", "B", "C", "D"}

\* and under SpecExpand: the 11-page document and the one-page document
LongStates == {"absent", "unreadable", "D", "E"}

\* Python's str ordering on the file names of the model
FileRank(f) == CASE f = "a.pdf" -> 1 [] f = "b.pdf" -> 2

\* hashlib.md5 over the whole file: equal contents, equal digests
_get_file_hash(c) ==
    CASE c = "A" -> "md5-A"
      [] c = "B" -> "md5-B"
      [] c = "C" -> "md5-C"
      [] c = "D" -> "md5-D"
      [] c = "E" -> "md5-E"
      [] c = "F" -> "md5-F"
      [] c = "G" -> "md5-G"

\* os.path.join(self.folder_path, filename)
PathOf(filename) == <<"folder_path", filename>>

MinLen == 20

\* per document and page, what the page loop works with: whether the page
\* raises, and " ".join(page.get_text().split())
Extracted ==
    [c \in ContentIds |->
        [n \in 1..Len(PagesOf(c)) |->
            [damaged |-> PagesOf(c)[n].damaged,
             clean_text |-> clean_text(PagesOf(c)[n].text)]]]

(***************************************************************************)
(* Page Indexer                                                            *)
(***************************************************************************)
Unit(filename, page_num, text, file_hash) ==
    [id   |-> <<filename, page_num>>,
     file |-> filename,
     page |-> page_num,
     path |-> PathOf(filename),
     hash |-> file_hash,
     text |-> text]

\* the page loop of _process_single_pdf: page_num is zero-based, pages[page_num + 1]
\* is the page; raised is TRUE when page.get_text() raises
RECURSIVE PageLoop(_, _, _, _, _)
PageLoop(pages, page_num, filename, file_hash, units) ==
    IF page_num >= Len(pages) THEN [raised |-> FALSE, units |-> units]
    ELSE LET page == pages[page_num + 1]
             ct   == page.clean_text
         IN  IF page.damaged THEN [raised |-> TRUE, units |-> {}]
             ELSE IF Len(ct) < MinLen
                  THEN PageLoop(pages, page_num + 1, filename, file_hash, units)
                  ELSE PageLoop(pages, page_num + 1, filename, file_hash,
                                units \cup {Unit(filename, page_num, ct, file_hash)})

\* collection.add: units whose id is already stored are not added again
CollectionAdd(coll, units) ==
    coll \cup {u \in units : \A v \in coll : v.id # u.id}

\* a delete that removes nothing
DeleteNothing(coll, filename) == coll

\* collection.delete(where={"file": filename})
CollectionDelete(coll, filename) == {u \in coll : u.file # filename}

\* _process_single_pdf: every exception is caught and printed
\* addFails: collection.add raises (embedding or storage failure)
_process_single_pdf(coll, fold, filename, file_hash, addFails) ==
    LET none == [coll |-> coll, added |-> FALSE, error |-> FALSE, addFailed |-> FALSE] IN
    IF fold[filename] \notin ContentIds
    THEN [none EXCEPT !.error = TRUE]
    ELSE LET r == PageLoop(Extracted[fold[filename]], 0, filename, file_hash, {})
         IN  IF r.raised
             THEN [none EXCEPT !.error = TRUE]
             ELSE IF r.units = {}
                  THEN none
                  ELSE IF addFails
                       THEN [none EXCEPT !.error = TRUE, !.addFailed = TRUE]
                       ELSE [none EXCEPT !.coll = CollectionAdd(coll, r.units),
                                         !.added = TRUE]

\* indexed_map: file name -> the hash on its stored units
IndexedFiles(coll) == {u.file : u \in coll}
indexed_map(coll) ==
    [f \in IndexedFiles(coll) |-> (CHOOSE u \in coll : u.file = f).hash]

\* local_files: the *.pdf entries of the folder
local_files(fold) == {f \in Files : fold[f] # "absent"}

\* every listed file is taken for new or changed
AlwaysIndex(imap, filename, current_hash) == TRUE

\* filename not in indexed_map or indexed_map[filename] != current_hash
NeedsIndexing(imap, filename, current_hash) ==
    filename \notin DOMAIN imap \/ imap[filename] # current_hash

\* the for loop of load_and_index_pdfs over the listing, from position i;
\* st.status = "raised" when an exception left the loop
RECURSIVE FileLoop(_, _, _, _, _, _, _)
FileLoop(st, order, i, fold, imap, failDel, failAdd) ==
    IF i > Len(order) THEN st
    ELSE
      LET filename == order[i] IN
      IF fold[filename] = "unreadable"
      THEN [st EXCEPT !.status = "raised", !.raisedAt = filename]
      ELSE
        LET current_hash == _get_file_hash(fold[filename]) IN
        IF NeedsIndexing(imap, filename, current_hash)
        THEN
          IF filename \in DOMAIN imap /\ filename \in failDel
          THEN [st EXCEPT !.status = "raised", !.raisedAt = filename,
                          !.delFailed = @ \cup {filename}]
          ELSE
            LET c1 == IF filename \in DOMAIN imap
                      THEN CollectionDelete(st.coll, filename) ELSE st.coll
                r  == _process_single_pdf(c1, fold, filename, current_hash,
                                          filename \in failAdd)
                s1 == [st EXCEPT
                         !.coll = r.coll,
                         !.dels = IF filename \in DOMAIN imap
                                  THEN @ \cup {filename} ELSE @,
                         !.adds = IF r.added THEN @ \cup {filename} ELSE @,
                         !.errs = IF r.error THEN @ \cup {filename} ELSE @,
                         !.addFailed = IF r.addFailed THEN @ \cup {filename} ELSE @]
            IN FileLoop(s1, order, i + 1, fold, imap, failDel, failAdd)
        ELSE FileLoop(st, order, i + 1, fold, imap, failDel, failAdd)

load_and_index_pdfs(coll, fold, order, failDel, failAdd) ==
    FileLoop([coll |-> coll, status |-> "done", raisedAt |-> "none",
              dels |-> {}, adds |-> {}, errs |-> {},
              delFailed |-> {}, addFailed |-> {}],
             order, 1, fold, indexed_map(coll), failDel, failAdd)

Perms(S) ==
    {s \in [1..Cardinality(S) -> S] : \A i, j \in 1..Cardinality(S) : i # j => s[i] # s[j]}

\* the documents a pass has to (re)index: new, or stored under another hash
Changed(coll, fold) ==
    {f \in local_files(fold) :
        /\ fold[f] # "unreadable"
        /\ \/ f \notin IndexedFiles(coll)
           \/ indexed_map(coll)[f] # _get_file_hash(fold[f])}

(***************************************************************************)
(* Delimiter repair                                                        *)
(***************************************************************************)
Backslash == "\\"

\* the two characters at i are a backslash and the bracket br
DelimAt(text, i, br) ==
    i >= 1 /\ i + 1 <= Len(text) /\ text[i] = Backslash /\ text[i + 1] = br

\* a greedy (.*) followed by the closer: the last position where it stands
GreedyClose(text, from, br, dotall) ==
    LET at == {j \in from..Len(text) :
                  j + 1 <= Len(text) /\ text[j] = "\\" /\ text[j + 1] = br}
    IN  IF at = {} THEN 0 ELSE CHOOSE j \in at : \A k \in at : k <= j

\* (.*?) followed by the closer: the first position j >= from where the
\* closer stands, 0 if there is none; without DOTALL "." stops at a newline
RECURSIVE LazyClose(_, _, _, _)
LazyClose(text, from, br, dotall) ==
    IF from + 1 > Len(text) THEN 0
    ELSE IF DelimAt(text, from, br) THEN from
    ELSE IF ~dotall /\ text[from] = "\n" THEN 0
    ELSE LazyClose(text, from + 1, br, dotall)

\* re.sub(r'\\<ob>(.*?)\\<cb>', r'<dollars> \1 <dollars>', text, flags=re.DOTALL):
\* scan from pos, copy what does not match, replace the leftmost matches
RECURSIVE ReSub(_, _, _, _, _, _)
ReSub(text, pos, ob, cb, dollars, out) ==
    IF pos > Len(text) THEN out
    ELSE LET j == IF DelimAt(text, pos, ob) THEN LazyClose(text, pos + 2, cb, TRUE) ELSE 0
         IN  IF j # 0
             THEN ReSub(text, j + 2, ob, cb, dollars,
                        out \o dollars \o <<" ">> \o SubSeq(text, pos + 2, j - 1)
                            \o <<" ">> \o dollars)
             ELSE ReSub(text, pos + 1, ob, cb, dollars, Append(out, text[pos]))

_safe_latex_format(text) ==
    LET t1 == ReSub(text, 1, "[", "]", <<"$", "$">>, <<>>)
    IN  ReSub(t1, 1, "(", ")", <<"$">>, <<>>)

\* the third substitution of _clean_latex,
\*   re.sub(r'\(\s*([^)\n]*?[_=^\\].*?)\s*\)', r'$ \1 $', text)
\* A match at position i is described by <<w, a, b, v>>: w whitespace
\* characters, a characters other than ")" and newline, one of _ = ^ \,
\* b characters other than newline, v whitespace characters, then ")".
MathChars == {"_", "=", "^", Backslash}

\* the lengths n for which text[from .. from + n - 1] lies in the text and
\* holds only characters of the set ok
Runs(text, from, ok) ==
    {n \in 0..(Len(text) + 1 - from) : \A k \in from..(from + n - 1) : text[k] \in ok}

CharsOf(text) == {text[k] : k \in 1..Len(text)}

HeurMatches(text, i) ==
    LET any == CharsOf(text) IN
    UNION {UNION {UNION {
        {<<w, a, b, v>> : v \in {x \in Runs(text, i + w + a + b + 2, Whitespace) :
                                     /\ i + w + a + b + x + 2 <= Len(text)
                                     /\ text[i + w + a + b + x + 2] = ")"}}
        : b \in Runs(text, i + w + a + 2, any \ {"\n"})}
        : a \in {x \in Runs(text, i + w + 1, any \ {")", "\n"}) :
                    /\ i + w + x + 1 <= Len(text)
                    /\ text[i + w + x + 1] \in MathChars}}
        : w \in Runs(text, i + 1, Whitespace)}

\* the order in which the backtracking matcher tries the alternatives:
\* \s* greedy (longest first), the starred-question-mark parts lazy (shortest first)
HeurBefore(m, n) ==
    \/ m[1] > n[1]
    \/ m[1] = n[1] /\ m[2] < n[2]
    \/ m[1] = n[1] /\ m[2] = n[2] /\ m[3] < n[3]
    \/ m[1] = n[1] /\ m[2] = n[2] /\ m[3] = n[3] /\ m[4] > n[4]

RECURSIVE HeurSub(_, _, _)
HeurSub(text, pos, out) ==
    IF pos > Len(text) THEN out
    ELSE LET ms == IF text[pos] = "(" THEN HeurMatches(text, pos) ELSE {}
         IN  IF ms # {}
             THEN LET m == CHOOSE x \in ms : \A y \in ms : y = x \/ HeurBefore(x, y)
                      s == pos + 1 + m[1]
                      g == s + m[2] + m[3]       \* last character of group 1
                      e == g + m[4] + 1
                  IN  HeurSub(text, e + 1,
                              out \o <<"$", " ">> \o SubSeq(text, s, g) \o <<" ", "$">>)
             ELSE HeurSub(text, pos + 1, Append(out, text[pos]))

_clean_latex(text) ==
    LET t1 == ReSub(text, 1, "[", "]", <<"$", "$">>, <<>>)
        t2 == ReSub(t1, 1, "(", ")", <<"$">>, <<>>)
    IN  HeurSub(t2, 1, <<>>)

(***************************************************************************)
(* Page Renderer, Context Retriever, Answer Synthesizer                    *)
(***************************************************************************)
n_results == 3

\* a cap one short of MAX_IMAGES
OneShort == 9 - 1

MAX_IMAGES == 9

NoImage == [kind |-> "None"]

\* a rendering without the lower range check: fitz takes a negative page
\* number as counted from the end
RenderNegativePages(fold, pdf_path, page_num) ==
    LET f == pdf_path[2] IN
    IF fold[f] \notin ContentIds THEN NoImage
    ELSE IF page_num >= Len(Extracted[fold[f]]) THEN NoImage
    ELSE IF page_num >= 0 /\ Extracted[fold[f]][page_num + 1].damaged THEN NoImage
    ELSE [kind |-> "png", path |-> pdf_path, page |-> page_num, content |-> fold[f]]

\* _pdf_page_to_base64_image: the PNG of page page_num of the file that is
\* at pdf_path now; None when the file cannot be opened, the page number is
\* out of range or rendering raises
_pdf_page_to_base64_image(fold, pdf_path, page_num) ==
    LET f == pdf_path[2] IN
    IF fold[f] \notin ContentIds THEN NoImage
    ELSE IF page_num < 0 \/ page_num >= Len(Extracted[fold[f]]) THEN NoImage
    ELSE IF Extracted[fold[f]][page_num + 1].damaged THEN NoImage
    ELSE [kind |-> "png", path |-> pdf_path, page |-> page_num, content |-> fold[f]]

pages_to_fetch(current_page) == <<current_page - 1, current_page, current_page + 1>>

\* the two nested loops of query over the hits and pages_to_fetch, flattened:
\* step n handles page (n % 3) of hit (n \div 3); map is unique_pages_map as
\* the sequence of its entries in insertion order
RECURSIVE ExpandLoop(_, _, _)
ExpandLoop(hits, n, map) ==
    IF n >= 3 * Len(hits) THEN map
    ELSE LET meta  == hits[(n \div 3) + 1]
             p_num == pages_to_fetch(meta.page)[(n % 3) + 1]
             key   == <<meta.file, p_num>>
         IN  IF \E k \in 1..Len(map) : map[k].key = key
             THEN ExpandLoop(hits, n + 1, map)
             ELSE ExpandLoop(hits, n + 1, Append(map, [key |-> key, path |-> meta.path]))

unique_pages_map(hits) == ExpandLoop(hits, 0, <<>>)

\* the sort key (x[0], x[1]): file name, then page number
KeyLess(x, y) ==
    \/ FileRank(x[1]) < FileRank(y[1])
    \/ x[1] = y[1] /\ x[2] < y[2]

\* the entries left in insertion order, the order of relevance
insertion_order(map) == map

\* sorted(...): insert each entry after the entries that are not greater
RECURSIVE SortInsert(_, _)
SortInsert(sorted, e) ==
    IF sorted = <<>> THEN <<e>>
    ELSE IF KeyLess(e.key, sorted[1].key) THEN <<e>> \o sorted
    ELSE <<sorted[1]>> \o SortInsert(Tail(sorted), e)

RECURSIVE SortEntries(_, _)
SortEntries(map, n) ==
    IF n = 0 THEN <<>> ELSE SortInsert(SortEntries(map, n - 1), map[n])

sorted_keys(map) == SortEntries(map, Len(map))

\* sorted_keys[:MAX_IMAGES]
final_keys(sorted) ==
    SubSeq(sorted, 1, IF Len(sorted) < MAX_IMAGES THEN Len(sorted) ELSE MAX_IMAGES)

\* a caption that states the zero-based page number
CaptionZeroBased(filename, p_num) == <<"From ", filename, ", Page ", p_num>>

\* f"From {filename}, Page {p_num + 1}"
Caption(filename, p_num) == <<"From ", filename, ", Page ", p_num + 1>>

\* the rendering loop: a page that yields no image adds neither an image
\* nor a caption
RECURSIVE RenderLoop(_, _, _, _)
RenderLoop(fold, keys, n, acc) ==
    IF n > Len(keys) THEN acc
    ELSE LET img_b64 == _pdf_page_to_base64_image(fold, keys[n].path, keys[n].key[2])
         IN  IF img_b64 # NoImage
             THEN RenderLoop(fold, keys, n + 1,
                    [relevant_images |-> Append(acc.relevant_images, img_b64),
                     context_desc    |-> Append(acc.context_desc,
                                                Caption(keys[n].key[1], keys[n].key[2]))])
             ELSE RenderLoop(fold, keys, n + 1, acc)

NoNotesText == [kind |-> "fixed", text |-> "I couldn't find any relevant notes."]
ErrorText   == [kind |-> "error", text |-> "Error contacting OpenAI: {e}"]

\* an _ask_vision_model that does not look whether there are images
AskWithoutImages(images, context_desc, completion) ==
    IF ~completion.ok
    THEN [answer |-> ErrorText, images |-> <<>>, captions |-> <<>>, invoked |-> TRUE]
    ELSE [answer |-> [kind |-> "answer", text |-> _safe_latex_format(completion.text)],
          images |-> images, captions |-> context_desc, invoked |-> TRUE]

\* an _ask_vision_model that hands the lists back when the call fails
AskKeepsListsOnError(images, context_desc, completion) ==
    IF images = <<>>
    THEN [answer |-> NoNotesText, images |-> <<>>, captions |-> <<>>, invoked |-> FALSE]
    ELSE IF ~completion.ok
    THEN [answer |-> ErrorText, images |-> images, captions |-> context_desc,
          invoked |-> TRUE]
    ELSE [answer |-> [kind |-> "answer", text |-> _safe_latex_format(completion.text)],
          images |-> images, captions |-> context_desc, invoked |-> TRUE]

\* _ask_vision_model; completion.ok is FALSE when chat.completions.create
\* raises, else completion.text is the text the model returned
_ask_vision_model(images, context_desc, completion) ==
    IF images = <<>>
    THEN [answer |-> NoNotesText, images |-> <<>>, captions |-> <<>>,
          invoked |-> FALSE]
    ELSE IF ~completion.ok
    THEN [answer |-> ErrorText, images |-> <<>>, captions |-> <<>>,
          invoked |-> TRUE]
    ELSE [answer |-> [kind |-> "answer", text |-> _safe_latex_format(completion.text)],
          images |-> images, captions |-> context_desc,
          invoked |-> TRUE]

\* query, given what collection.query and the generative call return
query(fold, hits, completion) ==
    LET map     == unique_pages_map(hits)
        sorted  == sorted_keys(map)
        final   == final_keys(sorted)
        ctx     == RenderLoop(fold, final, 1,
                              [relevant_images |-> <<>>, context_desc |-> <<>>])
        r       == _ask_vision_model(ctx.relevant_images, ctx.context_desc, completion)
    IN  [op |-> "query",
         hits |-> [k \in 1..Len(hits) |-> <<hits[k].file, hits[k].page>>],
         window |-> [k \in 1..Len(final) |-> final[k].key],
         relevant_images |-> ctx.relevant_images,
         context_desc |-> ctx.context_desc,
         answer |-> r.answer, images |-> r.images, captions |-> r.captions,
         invoked |-> r.invoked]

\* what collection.query(n_results=3) can return: up to 3 stored units, in
\* any order of relevance
Hits(coll) ==
    UNION {[1..n -> coll] : n \in 0..n_results}

\* outcomes of the generative call: a failure, or one of two answers
Completions ==
    {[ok |-> FALSE],
     [ok |-> TRUE, text |-> <<"x">>],
     [ok |-> TRUE,
      text |-> <<Backslash, "[", "x", Backslash, "]", " ", Backslash, "(", "y", Backslash, ")">>]}

(***************************************************************************)
(* Sessions of the display layer                                           *)
(***************************************************************************)
\* get_chatbot is a cache_resource: every session's script run gets the
\* same MathRAG object, and each run is a thread of its own
Sessions == {"s1", "s2"}

Idle == [pc |-> "idle"]

(***************************************************************************)
(* Actions                                                                 *)
(***************************************************************************)
Init ==
    /\ folder_exists \in BOOLEAN
    /\ folder = [f \in Files |-> "absent"]
    /\ collection = {}
    /\ last = [op |-> "init"]
    /\ fmt = [fn |-> "none", text |-> <<>>, out |-> <<>>]
    /\ threads = [s \in Sessions |-> Idle]
    /\ observed = {}

\* the user edits the notes folder: adds, replaces, removes a file, or
\* makes it unreadable
EditFolder ==
    \E f \in Files, s \in FileStates :
        /\ folder_exists
        /\ s # folder[f]
        /\ folder' = [folder EXCEPT ![f] = s]
        /\ last' = [op |-> "edit"]
        /\ UNCHANGED <<folder_exists, collection, fmt, threads, observed>>

RemoveFolder ==
    /\ folder_exists
    /\ folder_exists' = FALSE
    /\ folder' = [f \in Files |-> "absent"]
    /\ last' = [op |-> "edit"]
    /\ UNCHANGED <<collection, fmt, threads, observed>>

\* load_and_index_pdfs when the folder is missing: create it and return
ScanMissing ==
    /\ ~folder_exists
    /\ folder_exists' = TRUE
    /\ last' = [op |-> "scan", status |-> "done", order |-> <<>>, pre |-> collection,
                dels |-> {}, adds |-> {}, errs |-> {}, raisedAt |-> "none",
                delFailed |-> {}, addFailed |-> {},
                repeat |-> last.op = "scan",
                prevFailed |-> last.op = "scan" /\ (last.delFailed \cup last.addFailed) # {}]
    /\ UNCHANGED <<folder, collection, fmt, threads, observed>>

\* one reindex pass.  os.listdir yields the entries in an arbitrary order,
\* the same order for as long as the folder is not modified.
Scan ==
    /\ folder_exists
    /\ \E order \in Perms(local_files(folder)) :
       \E failDel \in SUBSET (Changed(collection, folder) \cap IndexedFiles(collection)) :
       \E failAdd \in SUBSET (Changed(collection, folder) \ failDel) :
         /\ (last.op = "scan" /\ Len(last.order) = Len(order)) => order = last.order
         /\ LET r == load_and_index_pdfs(collection, folder, order, failDel, failAdd)
            IN  /\ collection' = r.coll
                /\ last' = [op |-> "scan", status |-> r.status, order |-> order,
                            pre |-> collection,
                            dels |-> r.dels, adds |-> r.adds, errs |-> r.errs,
                            raisedAt |-> r.raisedAt,
                            delFailed |-> r.delFailed, addFailed |-> r.addFailed,
                            repeat |-> last.op = "scan",
                            prevFailed |-> last.op = "scan"
                                /\ (last.delFailed \cup last.addFailed) # {}]
    /\ UNCHANGED <<folder_exists, folder, fmt, threads, observed>>

\* the user submits a question in the chat input
Ask ==
    /\ last.op # "ask"
    /\ last' = [op |-> "ask"]
    /\ UNCHANGED <<folder_exists, folder, collection, fmt, threads, observed>>

\* the display layer answers the pending question with bot.query
Query ==
    /\ last.op = "ask"
    /\ \E hits \in Hits(collection), completion \in Completions :
          last' = query(folder, hits, completion)
    /\ UNCHANGED <<folder_exists, folder, collection, fmt, threads, observed>>

Next == EditFolder \/ RemoveFolder \/ ScanMissing \/ Scan \/ Ask \/ Query

Spec == Init /\ [][Next]_vars

(***************************************************************************)
(* Scans and queries over a folder that holds the 11-page document         *)
(***************************************************************************)
InitExpand ==
    /\ folder_exists = TRUE
    /\ folder = [f \in Files |-> "absent"]
    /\ collection = {}
    /\ last = [op |-> "init"]
    /\ fmt = [fn |-> "none", text |-> <<>>, out |-> <<>>]
    /\ threads = [s \in Sessions |-> Idle]
    /\ observed = {}

EditLong ==
    \E f \in Files, s \in LongStates :
        /\ s # folder[f]
        /\ folder' = [folder EXCEPT ![f] = s]
        /\ last' = [op |-> "edit"]
        /\ UNCHANGED <<folder_exists, collection, fmt, threads, observed>>

NextExpand == EditLong \/ Scan \/ Ask \/ Query

SpecExpand == InitExpand /\ [][NextExpand]_vars

(***************************************************************************)
(* Two sessions on the shared MathRAG: load_and_index_pdfs step by step,   *)
(* one step per call on the shared collection                              *)
(***************************************************************************)
SharedStates == {"absent", "F", "G"}

InitShared ==
    /\ folder_exists = TRUE
    /\ folder = [f \in Files |-> "absent"]
    /\ collection = {}
    /\ last = [op |-> "init"]
    /\ fmt = [fn |-> "none", text |-> <<>>, out |-> <<>>]
    /\ threads = [s \in Sessions |-> Idle]
    /\ observed = {}

\* the file a pass is working on
Current(t) == t.order[t.i]

\* a pass that has deleted the old units of its current file and has not
\* yet called _process_single_pdf for it
MidReindex(t) == t.pc = "process" /\ t.replaced

\* the notes folder is edited while no script run is under way
EditShared ==
    \E f \in Files, c \in SharedStates :
        /\ \A s \in Sessions : threads[s] = Idle
        /\ c # folder[f]
        /\ folder' = [folder EXCEPT ![f] = c]
        /\ last' = [op |-> "edit"]
        /\ observed' = {}
        /\ UNCHANGED <<folder_exists, collection, fmt, threads>>

\* Scan pressed: the folder exists; os.listdir, collection.get, indexed_map
PassStart(s) ==
    /\ threads[s] = Idle
    /\ folder_exists
    /\ \E order \in Perms(local_files(folder)) :
          threads' = [threads EXCEPT ![s] =
                        [pc |-> "loop", order |-> order, i |-> 1,
                         imap |-> indexed_map(collection),
                         current_hash |-> "", replaced |-> FALSE]]
    /\ last' = [op |-> "pass"]
    /\ observed' = {}
    /\ UNCHANGED <<folder_exists, folder, collection, fmt>>

\* the head of the for loop: the end of the listing, or _get_file_hash and
\* the test on indexed_map
PassHash(s) ==
    LET t == threads[s] IN
    /\ t.pc = "loop"
    /\ threads' = [threads EXCEPT ![s] =
          IF t.i > Len(t.order) THEN Idle
          ELSE IF folder[Current(t)] \notin ContentIds THEN Idle
          ELSE LET h == _get_file_hash(folder[Current(t)]) IN
               IF NeedsIndexing(t.imap, Current(t), h)
               THEN [t EXCEPT !.current_hash = h, !.replaced = FALSE,
                              !.pc = IF Current(t) \in DOMAIN t.imap
                                     THEN "delete" ELSE "process"]
               ELSE [t EXCEPT !.i = @ + 1]]
    /\ last' = [op |-> "pass"]
    /\ observed' = {}
    /\ UNCHANGED <<folder_exists, folder, collection, fmt>>

\* self.collection.delete(where={"file": filename})
PassDelete(s) ==
    LET t == threads[s] IN
    /\ t.pc = "delete"
    /\ collection' = CollectionDelete(collection, Current(t))
    /\ threads' = [threads EXCEPT ![s] = [t EXCEPT !.pc = "process", !.replaced = TRUE]]
    /\ last' = [op |-> "pass"]
    /\ observed' = {}
    /\ UNCHANGED <<folder_exists, folder, fmt>>

\* self._process_single_pdf(filename, current_hash), then the next file
PassProcess(s) ==
    LET t == threads[s] IN
    /\ t.pc = "process"
    /\ collection' = _process_single_pdf(collection, folder, Current(t),
                                         t.current_hash, FALSE).coll
    /\ threads' = [threads EXCEPT ![s] =
                     [t EXCEPT !.pc = "loop", !.i = @ + 1, !.replaced = FALSE,
                               !.current_hash = ""]]
    /\ last' = [op |-> "pass"]
    /\ observed' = {}
    /\ UNCHANGED <<folder_exists, folder, fmt>>

\* a question answered in a session that is not scanning: collection.query
\* sees the collection as it is at that moment.  A query changes nothing a
\* later step reads, so a query directly after a query is left out.
QueryShared ==
    /\ \E s \in Sessions : threads[s] = Idle
    /\ last.op # "query"
    /\ \E hits \in Hits(collection), completion \in Completions :
          last' = query(folder, hits, completion)
    /\ observed' = {Current(threads[t]) : t \in {u \in Sessions : MidReindex(threads[u])}}
    /\ UNCHANGED <<folder_exists, folder, collection, fmt, threads>>

NextShared ==
    \/ EditShared
    \/ \E s \in Sessions : PassStart(s)
    \/ \E s \in Sessions : PassHash(s)
    \/ \E s \in Sessions : PassDelete(s)
    \/ \E s \in Sessions : PassProcess(s)
    \/ QueryShared

SpecShared == InitShared /\ [][NextShared]_vars

(***************************************************************************)
(* The delimiter repair on its own, over all short texts                   *)
(***************************************************************************)
MaxPieces == 4

Pieces ==
    {<<Backslash, "[">>, <<Backslash, "]">>, <<Backslash, "(">>, <<Backslash, ")">>,
     <<"x">>, <<" ">>, <<"\n">>, <<"(">>, <<")">>, <<"=">>}

RECURSIVE Flatten(_)
Flatten(ps) == IF ps = <<>> THEN <<>> ELSE ps[1] \o Flatten(Tail(ps))

\* Solve \[ x^2 = 4 \]
Example1 ==
    <<"S", "o", "l", "v", "e", " ", Backslash, "[", " ", "x", "^", "2", " ", "=", " ",
      "4", " ", Backslash, "]">>
\* the value \( x \)
Example2 ==
    <<"t", "h", "e", " ", "v", "a", "l", "u", "e", " ", Backslash, "(", " ", "x", " ",
      Backslash, ")">>

Texts ==
    {Flatten(ps) : ps \in UNION {[1..n -> Pieces] : n \in 0..MaxPieces}}
        \cup {Example1, Example2}

InitFormat ==
    /\ folder_exists = FALSE
    /\ folder = [f \in Files |-> "absent"]
    /\ collection = {}
    /\ last = [op |-> "init"]
    /\ \E t \in Texts : fmt = [fn |-> "none", text |-> t, out |-> <<>>]
    /\ threads = [s \in Sessions |-> Idle]
    /\ observed = {}

SafeLatexFormat ==
    /\ fmt.fn = "none"
    /\ fmt' = [fmt EXCEPT !.fn = "_safe_latex_format", !.out = _safe_latex_format(fmt.text)]
    /\ UNCHANGED <<folder_exists, folder, collection, last, threads, observed>>

CleanLatex ==
    /\ fmt.fn = "none"
    /\ fmt' = [fmt EXCEPT !.fn = "_clean_latex", !.out = _clean_latex(fmt.text)]
    /\ UNCHANGED <<folder_exists, folder, collection, last, threads, observed>>

NextFormat == SafeLatexFormat \/ CleanLatex

SpecFormat == InitFormat /\ [][NextFormat]_vars

(***************************************************************************)
(* Properties of the indexing pass                                         *)
(***************************************************************************)
NonWs(text) == {i \in 1..Len(text) : text[i] \notin Whitespace}

WordStarts(text) == {i \in NonWs(text) : i = 1 \/ text[i - 1] \in Whitespace}

\* the length of a text once every whitespace run is one space and the
\* ends are trimmed: its other characters, and one space between two words
CollapsedLen(text) ==
    IF NonWs(text) = {} THEN 0
    ELSE Cardinality(NonWs(text)) + Cardinality(WordStarts(text)) - 1

IsNonWs(ch) == ch \notin Whitespace

\* per document: the length each page's text collapses to, and its
\* characters other than whitespace
PageFacts ==
    [c \in ContentIds |->
        [n \in 1..Len(PagesOf(c)) |->
            [len   |-> CollapsedLen(PagesOf(c)[n].text),
             chars |-> SelectSeq(PagesOf(c)[n].text, IsNonWs),
             damaged |-> PagesOf(c)[n].damaged]]]

\* the zero-based numbers of the pages of a document that are to be indexed
QualifyingPages ==
    [c \in ContentIds |->
        {n - 1 : n \in {k \in 1..Len(PagesOf(c)) :
                            ~PageFacts[c][k].damaged /\ PageFacts[c][k].len >= 20}}]

ContentOf(h) == CHOOSE c \in ContentIds : _get_file_hash(c) = h

UnitsOf(coll, f) == {u \in coll : u.file = f}

\* the (page, fingerprint) pairs of the units stored for f
Stored(coll, f) == {<<u.page, u.hash>> : u \in UnitsOf(coll, f)}

\* the (page, fingerprint) pairs a full index of f, as it is in the folder, holds
Full(fold, f) == {<<p, _get_file_hash(fold[f])>> : p \in QualifyingPages[fold[f]]}

\* the documents of the folder indexed under a fingerprint that is not theirs
FingerprintChanged(coll, fold) ==
    {f \in Files : /\ fold[f] \in ContentIds
                   /\ \E u \in UnitsOf(coll, f) : u.hash # _get_file_hash(fold[f])}

OldHashes(coll, f) == {u.hash : u \in UnitsOf(coll, f)}

PassCompleted == last.op = "scan" /\ last.status = "done"

\* C1 as claimed: after a completed pass, every document whose fingerprint
\* differed from the one on its units has no unit with the old fingerprint
\* and has the full set of qualifying units with the new one.
C1_AsClaimed ==
    PassCompleted =>
        \A f \in FingerprintChanged(last.pre, folder) :
            /\ \A u \in UnitsOf(collection, f) : u.hash \notin OldHashes(last.pre, f)
            /\ Stored(collection, f) = Full(folder, f)

\* C1 as amended: after a completed pass, every document whose fingerprint
\* differed has no unit with the old fingerprint; it has the full set of
\* qualifying units with the new fingerprint unless its extraction or the
\* insert of its units failed, and then it has no unit at all.
C1_Reindexed ==
    PassCompleted =>
        \A f \in FingerprintChanged(last.pre, folder) :
            /\ \A u \in UnitsOf(collection, f) : u.hash \notin OldHashes(last.pre, f)
            /\ f \notin last.errs => Stored(collection, f) = Full(folder, f)
            /\ f \in last.errs => UnitsOf(collection, f) = {}

C1_Witness ==
    /\ PassCompleted
    /\ \E f \in FingerprintChanged(last.pre, folder) :
          /\ f \notin last.errs
          /\ UnitsOf(collection, f) # {}
          /\ f \in last.dels /\ f \in last.adds

\* the new or changed documents of a pass whose own handling met no failure
Untroubled ==
    Changed(last.pre, folder) \ (last.errs \cup last.delFailed \cup {last.raisedAt})

\* C2 as claimed: a pass never raises, and every new or changed document
\* that met no failure of its own is indexed in that pass.
C2_AsClaimed ==
    last.op = "scan" =>
        /\ last.status = "done"
        /\ \A f \in Untroubled : Stored(collection, f) = Full(folder, f)

IsCollapsed(t) ==
    \A i \in 1..Len(t) :
        t[i] \in Whitespace =>
            /\ t[i] = " "
            /\ 1 < i /\ i < Len(t)
            /\ t[i - 1] \notin Whitespace
            /\ t[i + 1] \notin Whitespace

\* C8: every stored unit is of a page whose collapsed text has 20 characters
\* or more and carries that collapsed text; no two units share (document,
\* page); a document indexed by the last pass has exactly one unit for each
\* of its pages of 20 characters or more and none for the others.
C8_MinimumLength ==
    /\ \A u \in collection :
          LET facts == PageFacts[ContentOf(u.hash)][u.page + 1]
          IN  /\ facts.len >= 20
              /\ Len(u.text) = facts.len
              /\ IsCollapsed(u.text)
              /\ SelectSeq(u.text, IsNonWs) = facts.chars
    /\ \A u, v \in collection : (u.file = v.file /\ u.page = v.page) => u = v
    /\ last.op = "scan" =>
          \A f \in last.adds :
              {u.page : u \in UnitsOf(collection, f)} = QualifyingPages[folder[f]]

\* document A indexed: pages of 19 characters (raw, or after collapsing 21)
\* left out, pages of 20 (raw, or after collapsing 25) stored
C8_Witness ==
    /\ last.op = "scan"
    /\ \E f \in last.adds :
          /\ folder[f] = "A"
          /\ {u.page : u \in UnitsOf(collection, f)} = {1, 4}

(***************************************************************************)
(* Properties of a query                                                   *)
(***************************************************************************)
\* the (document, page) an image was rendered from, a caption names
ImagePair(img) == <<img.path[2], img.page>>
CaptionPair(cap) == <<cap[2], cap[4] - 1>>

\* (document identifier, page number) order
PairBefore(x, y) ==
    \/ FileRank(x[1]) < FileRank(y[1])
    \/ FileRank(x[1]) = FileRank(y[1]) /\ x[2] < y[2]

StrictlyAscending(pairs) ==
    \A i \in 1..(Len(pairs) - 1) : PairBefore(pairs[i], pairs[i + 1])

Pairs(seq, Of(_)) == [i \in 1..Len(seq) |-> Of(seq[i])]

\* the candidate pages of a retrieval result: p - 1, p, p + 1 of each hit
Candidates(hits) ==
    {<<hits[k][1], hits[k][2] + d>> : k \in 1..Len(hits), d \in {-1, 0, 1}}

Range(seq) == {seq[i] : i \in 1..Len(seq)}

\* C4: the pages behind the images and the captions handed to the Answer
\* Synthesizer are strictly ascending by (document identifier, page number),
\* so sorted in that order and without a repeated pair.
C4_Ordered ==
    last.op = "query" =>
        /\ StrictlyAscending(Pairs(last.relevant_images, ImagePair))
        /\ StrictlyAscending(Pairs(last.context_desc, CaptionPair))

\* hits out of (document, page) order, two of them with overlapping
\* neighbourhoods, and a candidate page that was not rendered
C4_Witness ==
    /\ last.op = "query"
    /\ Len(last.relevant_images) >= 3
    /\ ~StrictlyAscending(last.hits)
    /\ Cardinality(Candidates(last.hits)) < 3 * Len(last.hits)
    /\ Len(last.relevant_images) < Len(last.window)

CaptionFor(img) == <<"From ", img.path[2], ", Page ", img.page + 1>>

\* C5: for every outcome the returned images and captions have the same
\* length and captions[i] names the document and the one-based page of
\* images[i]; so have the lists handed to the Answer Synthesizer, and on
\* success the returned lists are those lists.
C5_CoIndexed ==
    last.op = "query" =>
        /\ Len(last.images) = Len(last.captions)
        /\ \A i \in 1..Len(last.images) : last.captions[i] = CaptionFor(last.images[i])
        /\ Len(last.relevant_images) = Len(last.context_desc)
        /\ \A i \in 1..Len(last.relevant_images) :
              last.context_desc[i] = CaptionFor(last.relevant_images[i])
        /\ last.answer.kind = "answer" =>
              /\ last.images = last.relevant_images
              /\ last.captions = last.context_desc

C5_Witness ==
    /\ last.op = "query"
    /\ last.answer.kind = "answer"
    /\ Len(last.images) >= 2
    /\ Len(last.images) < Len(last.window)

\* C6: a query whose list of rendered images is empty returns the fixed
\* text with empty lists and does not invoke the generative capability.
C6_EmptyRetrieval ==
    (last.op = "query" /\ last.relevant_images = <<>>) =>
        /\ last.answer = NoNotesText
        /\ last.images = <<>>
        /\ last.captions = <<>>
        /\ ~last.invoked

\* there were hits, and none of their candidate pages could be rendered
C6_Witness ==
    /\ last.op = "query"
    /\ last.relevant_images = <<>>
    /\ Len(last.hits) > 0
    /\ collection # {}

\* C7: a query whose generative call fails returns the error text with
\* empty image and caption lists, and leaves the index and the folder as
\* they were, so that the next query finds what it would have found.
C7_FailureContained ==
    [][(last'.op = "query" /\ last'.answer.kind = "error") =>
          /\ last'.answer = ErrorText
          /\ last'.images = <<>>
          /\ last'.captions = <<>>
          /\ last'.invoked
          /\ collection' = collection
          /\ folder' = folder
          /\ folder_exists' = folder_exists]_vars

C7_Witness ==
    /\ last.op = "query"
    /\ last.answer.kind = "error"
    /\ Len(last.relevant_images) >= 1
    /\ collection # {}

\* C9: the context window has at most 9 entries and is the first 9 (all,
\* when there are fewer) of the candidate pages in (document, page) order;
\* the images are of pages of the window.
C9_Cap ==
    last.op = "query" =>
        LET cand == Candidates(last.hits)
            win  == Range(last.window)
            size == IF Cardinality(cand) < 9 THEN Cardinality(cand) ELSE 9
        IN  /\ Len(last.window) <= 9
            /\ Len(last.relevant_images) <= 9
            /\ Len(last.images) <= 9
            /\ Len(last.window) = size
            /\ StrictlyAscending(last.window)
            /\ win \subseteq cand
            /\ \A k \in cand \ win : \A w \in win : PairBefore(w, k)
            /\ Range(Pairs(last.relevant_images, ImagePair)) \subseteq win

\* nine candidate pages of two documents, all rendered
C9_Witness ==
    /\ last.op = "query"
    /\ Len(last.window) = 9
    /\ Len(last.relevant_images) = 9
    /\ \E i, j \in 1..9 : last.window[i][1] # last.window[j][1]

(***************************************************************************)
(* Properties of the delimiter repair                                      *)
(***************************************************************************)
Has(text, i, br) == i + 1 <= Len(text) /\ text[i] = "\\" /\ text[i + 1] = br

\* the openers that have a closer after them, and the nearest such closer
Closable(text, ob, cb) ==
    {i \in 1..Len(text) : Has(text, i, ob) /\ \E j \in (i + 2)..Len(text) : Has(text, j, cb)}

NearestCloser(text, i, cb) ==
    CHOOSE j \in (i + 2)..Len(text) :
        Has(text, j, cb) /\ \A k \in (i + 2)..(j - 1) : ~Has(text, k, cb)

\* the openers of the spans of a text: each closable opener that does not
\* lie inside the span of an earlier one
Spans(text, ob, cb) ==
    CHOOSE S \in SUBSET Closable(text, ob, cb) :
        \A i \in Closable(text, ob, cb) :
            i \in S <=> ~\E h \in S : h < i /\ i <= NearestCloser(text, h, cb) + 1

\* the text with the opener of every span turned into the dollars and a
\* space, its closer into a space and the dollars, and every other
\* character kept, in place
Replaced(text, ob, cb, dollars) ==
    LET S == Spans(text, ob, cb)
        E == {NearestCloser(text, i, cb) : i \in S}
        piece(i) == IF i \in S THEN dollars \o <<" ">>
                    ELSE IF i - 1 \in S \/ i - 1 \in E THEN <<>>
                    ELSE IF i \in E THEN <<" ">> \o dollars
                    ELSE <<text[i]>>
    IN  Flatten([i \in 1..Len(text) |-> piece(i)])

\* both kinds of span replaced: first \[ \], then \( \) in the result
Repaired(text) ==
    Replaced(Replaced(text, "[", "]", <<"$", "$">>), "(", ")", <<"$">>)

\* Solve $$  x^2 = 4  $$
Repaired1 ==
    <<"S", "o", "l", "v", "e", " ", "$", "$", " ", " ", "x", "^", "2", " ", "=", " ",
      "4", " ", " ", "$", "$">>
\* the value $  x  $
Repaired2 ==
    <<"t", "h", "e", " ", "v", "a", "l", "u", "e", " ", "$", " ", " ", "x", " ", " ", "$">>

\* C10 as claimed: the delimiter repair replaces the spans of both kinds
\* and leaves every character outside them unchanged.
C10_AsClaimed ==
    fmt.fn # "none" => fmt.out = Repaired(fmt.text)

\* C10 as amended: _safe_latex_format replaces every \[ \] span and then,
\* in the result, every \( \) span, each opener paired with the nearest
\* closer after it, the content kept between dollars and spaces, across
\* line ends, and every character outside the spans kept; the two examples
\* come out as stated.  _clean_latex does the same as long as no "("
\* is left: its third substitution rewrites parenthesised text.
C10_Repair ==
    /\ fmt.fn = "_safe_latex_format" => fmt.out = Repaired(fmt.text)
    /\ (fmt.fn = "_clean_latex" /\ "(" \notin Range(Repaired(fmt.text)))
          => fmt.out = Repaired(fmt.text)
    /\ (fmt.fn # "none" /\ fmt.text = Example1) => fmt.out = Repaired1
    /\ (fmt.fn # "none" /\ fmt.text = Example2) => fmt.out = Repaired2

\* two spans in one text: the first closer ends the first span
C10_Witness ==
    /\ fmt.fn = "_safe_latex_format"
    /\ Cardinality(Spans(fmt.text, "[", "]")) = 2
    /\ fmt.out # fmt.text

(***************************************************************************)
(* Properties of the neighbour expansion                                   *)
(***************************************************************************)
\* the pages of a file that can be rendered now
Renderable(f) ==
    IF folder[f] \in {"absent", "unreadable"} THEN {}
    ELSE {q \in 0..(Len(PagesOf(folder[f])) - 1) : ~PagesOf(folder[f])[q + 1].damaged}

\* the pages the last query handed on around a hit on page p of file f
Contributed(f, p) ==
    {q \in {p - 1, p, p + 1} : <<f, q>> \in Range(Pairs(last.relevant_images, ImagePair))}

\* C11: a hit on page p of a document puts p-1, p and p+1 of that document
\* in the window; of these exactly the pages that are in the range of the
\* document as it can be opened now are handed on, the others are dropped,
\* and nothing else is handed on; so in the 11-page document a hit on page
\* 5 gives {4,5,6}, a hit on page 0 gives {0,1} and a hit on the last page
\* gives {9,10}.
C11_Neighbours ==
    last.op = "query" =>
        /\ \A k \in 1..Len(last.hits) :
              LET f == last.hits[k][1]
                  p == last.hits[k][2]
              IN  /\ {<<f, p - 1>>, <<f, p>>, <<f, p + 1>>} \subseteq Range(last.window)
                  /\ Contributed(f, p) = {p - 1, p, p + 1} \cap Renderable(f)
                  /\ folder[f] = "E" =>
                        /\ p = 5 => Contributed(f, p) = {4, 5, 6}
                        /\ p = 0 => Contributed(f, p) = {0, 1}
                        /\ p = 10 => Contributed(f, p) = {9, 10}
        /\ \A i \in 1..Len(last.relevant_images) :
              \E k \in 1..Len(last.hits) :
                  /\ ImagePair(last.relevant_images[i])[1] = last.hits[k][1]
                  /\ ImagePair(last.relevant_images[i])[2] \in
                        {last.hits[k][2] - 1, last.hits[k][2], last.hits[k][2] + 1}

\* hits on the first, the sixth and the last page of the 11-page document
C11_Witness ==
    /\ last.op = "query"
    /\ \E f \in Files :
          /\ folder[f] = "E"
          /\ last.hits = <<<<f, 5>>, <<f, 0>>, <<f, 10>>>>
          /\ Len(last.relevant_images) = 7

\* hits on units of a document that has left the folder: nothing handed on
C11_WitnessGone ==
    /\ last.op = "query"
    /\ Len(last.hits) = 3
    /\ \A k \in 1..3 : folder[last.hits[k][1]] \in {"absent", "unreadable"}
    /\ last.relevant_images = <<>>

(***************************************************************************)
(* Properties of concurrent sessions                                       *)
(***************************************************************************)
\* session s adds or deletes the units of file f in this step
WritesUnitsOf(s, f) ==
    /\ threads[s].pc \in {"delete", "process"}
    /\ threads'[s] # threads[s]
    /\ Current(threads[s]) = f

\* C12 as claimed: no similarity search finds a document with its old
\* units deleted and its new units not yet added, and no pass deletes or
\* adds the units of a document while another pass stands between its own
\* delete and add for that document.
C12_AsClaimed ==
    [][/\ last'.op = "query" => observed' = {}
       /\ \A s \in Sessions, f \in Files :
             WritesUnitsOf(s, f) =>
                 ~\E t \in Sessions \ {s} :
                     MidReindex(threads[t]) /\ Current(threads[t]) = f]_vars

\* a search that ran while the old units of a changed document were gone:
\* the document has no stored unit at all
C12_SeenMidReindex ==
    /\ last.op = "query"
    /\ \E f \in observed : UnitsOf(collection, f) = {}

\* two passes between delete and add for the same document
C12_BothMidReindex ==
    \E s, t \in Sessions :
        /\ s # t
        /\ MidReindex(threads[s]) /\ MidReindex(threads[t])
        /\ Current(threads[s]) = Current(threads[t])

====
